---- MODULE Spec2Model ----
(***************************************************************************)
(* A model of rtc-lib's per-peer session orchestrator (RemotePeer), of the *)
(* named-resource collections it feeds and of the Room that creates one    *)
(* orchestrator per discovered peer.                                       *)
(*                                                                         *)
(* JavaScript objects used as ordered maps (local.streams, private_streams,*)
(* streams_desc, ...) are sequences of [name, val] records in insertion    *)
(* order, as Object.entries enumerates them.  Promises are handles into    *)
(* the `promises` table; the futures returned by connect() are indexes     *)
(* into `chains`.                                                          *)
(***************************************************************************)
EXTENDS Integers, Sequences, FiniteSets, TLC

(* ------------------------------ bounds -------------------------------- *)

\* size of the pool of stream promises
MaxPromises == 2
\* number of connect() invocations, the constructor's included
MaxConnectCalls == 2
\* number of addStream / addDataChannel invocations
MaxMutatorCalls == 2
\* number of inbound signaling payloads
MaxSignalingIn == 2
\* number of transport objects waiting for their descriptor
MaxQueue == 2
\* number of outgoing signaling payloads the transport emits
MaxPcSignaling == 2
\* number of close() calls and left notifications on one peer
MaxCloses == 1
\* number of Room.connect() invocations
MaxRoomConnects == 2
\* number of peer_joined notifications
MaxJoins == 3
\* number of closed notifications of the signaling session
MaxClosed == 1
\* number of leave() / destroy() invocations
MaxLeaves == 1

(* --------------------------- value universes --------------------------- *)

DEFAULT_STREAM == "stream"
DEFAULT_CHANNEL == "data"

StreamNames == {DEFAULT_STREAM, "a"}
ChannelNames == {DEFAULT_CHANNEL, "chat"}
Streams == {"sA", "sB"}
Promises == 1..MaxPromises

\* stream.id(): the transport-assigned key of a stream object
StreamId(s) == CASE s = "sA" -> "kA" [] s = "sB" -> "kB" [] OTHER -> "k?"

DefaultDesc == "{ordered:true}"
ChannelOptions == {DefaultDesc, "{ordered:false}"}

\* the data channel objects the transport delivers, and the key of each
Channels == {"cX"}
ChannelKey(c) == CASE c = "cX" -> DefaultDesc [] OTHER -> "?"

StreamKeys == {StreamId(s) : s \in Streams}
ChannelKeys == ChannelOptions

\* the values options.auto_connect is given: absent, true, false, 0
AutoConnectValues == {"unset", "true", "false", "zero"}

\* JavaScript values as they reach addStream / addDataChannel
V_str(n) == [type |-> "string", str |-> n, ref |-> 0]
V_undef == [type |-> "undefined", str |-> "", ref |-> 0]
V_promise(p) == [type |-> "promise", str |-> "", ref |-> p]
V_stream(s) == [type |-> "stream", str |-> s, ref |-> 0]
V_config == [type |-> "config", str |-> "constraints", ref |-> 0]
V_options(o) == [type |-> "options", str |-> o, ref |-> 0]

(* ------------------------ ordered JS objects --------------------------- *)

ObjHas(o, n) == \E i \in 1..Len(o) : o[i].name = n
ObjIdx(o, n) == CHOOSE i \in 1..Len(o) : o[i].name = n
ObjGet(o, n) == o[ObjIdx(o, n)].val
ObjKeys(o) == {o[i].name : i \in 1..Len(o)}
\* o[n] = v: an existing key keeps its place, a new key is appended
ObjSet(o, n, v) ==
  IF ObjHas(o, n) THEN [o EXCEPT ![ObjIdx(o, n)].val = v]
  ELSE Append(o, [name |-> n, val |-> v])

RECURSIVE ObjAssign(_, _)
\* Object.assign(t, s) / {...t, ...s}
ObjAssign(t, s) ==
  IF s = <<>> THEN t
  ELSE ObjAssign(ObjSet(t, Head(s).name, Head(s).val), Tail(s))

(* ------------------------------ state ---------------------------------- *)

VARIABLES
  auto_connect,      \* options.auto_connect
  local_streams,     \* local.streams: name -> promise handle
  local_channels,    \* local.channels: name -> options
  private_streams,   \* name -> promise handle
  private_channels,  \* name -> options
  promises,          \* handle -> [state, value]
  connect_p,         \* 0 (null) or the index in chains of the stored future
  chains,            \* the promise chains connect() has built
  connect_calls,     \* every connect() invocation: who made it, what it returned
  streams_desc,      \* name -> stream key
  channels_desc,     \* name -> options
  pc_calls,          \* the calls made on the transport session, in order
  last_call,         \* the last addStream / addDataChannel: its arguments, what it returned
  n_mutator_calls,   \* addStream / addDataChannel invocations so far
  cc_local,          \* channel collection: the descriptor given to setLocal
  cc_entries,        \* channel collection: name -> future status
  cc_remote,         \* channel collection: remote descriptor, key -> name
  cc_queue,          \* channel collection: objects waiting for their descriptor
  sc_entries,        \* stream collection: name -> future status
  sc_remote,         \* stream collection: remote descriptor, key -> name
  sc_queue,          \* stream collection: objects waiting for their descriptor
  pc_signaling,      \* the transport's signaling input: payloads handed over, the last one
  last_get,          \* what the last stream(name) / channel(name) returned
  delivered,         \* history: the objects the transport has delivered
  announced,         \* history: the <<key, name>> pairs the remote has announced
  queued_ever,       \* history: the objects that had to wait in a queue
  sig_sent,          \* signaling.send('signaling', data): payloads sent, the last one
  pc_emitted,        \* the outgoing payloads the transport has emitted
  left_emitted,      \* the left notifications the peer has emitted
  late,              \* history: the names first registered after connect() was invoked
  state,             \* Room.state
  join_p,            \* Room.join_p: the future of signaling.connect()
  room_connects,     \* the futures Room.connect() has returned
  signaling_calls,   \* the calls made on the room's signaling session
  state_log,         \* the state_changed notifications, in order
  peers,             \* Room.peers: peer id -> remote peer, 0 when absent
  remote_peers,      \* the remote peers createPeer has built
  last_emit,         \* the notifications the room emitted in its last handler
  n_closed           \* closed notifications of the signaling session so far

\* the connect protocol and the private resources
connVars == <<auto_connect, local_streams, local_channels, private_streams,
              private_channels, promises, connect_p, chains, connect_calls,
              streams_desc, channels_desc, pc_calls, last_call, n_mutator_calls,
              cc_local>>

\* the resolution of remote resources
resVars == <<cc_remote, cc_queue, sc_entries, sc_remote, sc_queue, pc_signaling,
             last_get, delivered, announced, queued_ever>>

\* the outgoing side of the signaling wiring
wireVars == <<sig_sent, pc_emitted, left_emitted, late>>

\* the room
roomVars == <<state, join_p, room_connects, signaling_calls, state_log, peers,
              remote_peers, last_emit, n_closed>>

vars == <<connVars, cc_entries, resVars, wireVars, roomVars>>

(* ------------------- named-resource collections ------------------------ *)

\* get(name): the future stored for the name, created pending when absent
CollGet(entries, name) ==
  IF entries[name].status = "absent"
  THEN [entries EXCEPT ![name] = [status |-> "pending", value |-> ""]]
  ELSE entries

\* the key under which the remote's descriptor announces a delivered object
ObjectKey(v) == IF v \in Streams THEN StreamId(v) ELSE ChannelKey(v)

\* first resolution wins: a resolved name keeps its value
CollSettle(entries, name, v) ==
  IF entries[name].status = "resolved" THEN entries
  ELSE [entries EXCEPT ![name] = [status |-> "resolved", value |-> v]]

\* resolve(value): settle the name the remote gave the value's key, or queue it
CollResolve(c, v) ==
  IF c.remote[ObjectKey(v)] # ""
  THEN [c EXCEPT !.entries = CollSettle(c.entries, c.remote[ObjectKey(v)], v)]
  ELSE [c EXCEPT !.queue = Append(c.queue, v)]

RECURSIVE CollMerge(_, _)
\* merge the announced name -> key pairs into remote_descriptor (key -> name)
CollMerge(remote, desc) ==
  IF desc = <<>> THEN remote
  ELSE CollMerge([remote EXCEPT ![Head(desc).val] = Head(desc).name], Tail(desc))

RECURSIVE CollDrain(_, _)
\* match the queued objects whose key the descriptor now knows, in order
CollDrain(c, q) ==
  IF q = <<>> THEN c
  ELSE IF c.remote[ObjectKey(Head(q))] # ""
       THEN CollDrain([c EXCEPT !.entries =
                         CollSettle(c.entries, c.remote[ObjectKey(Head(q))], Head(q))],
                      Tail(q))
       ELSE CollDrain([c EXCEPT !.queue = Append(c.queue, Head(q))], Tail(q))

\* update(descriptor) / setRemote(descriptor)
CollUpdate(c, desc) ==
  CollDrain([c EXCEPT !.remote = CollMerge(c.remote, desc), !.queue = <<>>], c.queue)

Coll(remote, queue, entries) == [remote |-> remote, queue |-> queue, entries |-> entries]

\* setLocal(descriptor): stores the outgoing descriptor, resolution is not
\* affected
CollSetLocal(c, desc) == [local |-> desc, coll |-> c]

(* ------------------- RemotePeer: remote resources ---------------------- *)

streamFreshFuture(name, entries) ==
  LET n == IF name.type = "undefined" THEN DEFAULT_STREAM ELSE name.str
  IN [name |-> n, entries |-> [entries EXCEPT ![n] = [status |-> "pending", value |-> ""]]]

\* stream(name): `if (name == null) name = DEFAULT_STREAM`, then get(name)
stream(name, entries) ==
  LET n == IF name.type = "undefined" THEN DEFAULT_STREAM ELSE name.str
  IN [name |-> n, entries |-> CollGet(entries, n)]

\* peer_connection.on('stream_added')
onStreamAdded(s, sc) == CollResolve(sc, s)

\* peer_connection.on('data_channel_ready')
onDataChannelReady(ch, cc) == CollResolve(cc, ch)

onSignalingNoUpdate(data, sc, cc, forwarded) ==
  [sc |-> sc, cc |-> CollUpdate(cc, data.channels), forwarded |-> [count |-> forwarded.count + 1, last |-> data]]

\* signaling.on('signaling')
onSignaling(data, sc, cc, forwarded) ==
  [sc |-> CollUpdate(sc, data.streams),
   cc |-> CollUpdate(cc, data.channels),
   forwarded |-> [count |-> forwarded.count + 1, last |-> data]]

(* ------------------------ RemotePeer: connect -------------------------- *)

\* `x == null` and the truthiness of x, for the values auto_connect takes
IsNullish(ac) == ac = "unset"
Truthy(ac) == ac = "true"

\* `options.auto_connect == null || options.auto_connect`
AutoConnects(ac) == IsNullish(ac) \/ Truthy(ac)

\* `options.auto_connect === false`
IsExactlyFalse(ac) == ac = "false"

\* the promise chain built by one run of the guarded block of connect():
\* the merged stream promises it awaits, the state of the future it stands
\* for, the state of the transport's connect future once it was requested
NewChain(object) ==
  [streams |-> object, stage |-> "waiting", tc |-> "none", err |-> ""]

connectUnguarded(cp, ch, ls, ps) ==
  [connect_p |-> Len(ch) + 1,
   chains |-> Append(ch, NewChain(ObjAssign(ObjAssign(<<>>, ls), ps)))]

connectSharedWins(cp, ch, ls, ps) ==
  IF cp = 0
  THEN [connect_p |-> Len(ch) + 1,
        chains |-> Append(ch, NewChain(ObjAssign(ObjAssign(<<>>, ps), ls)))]
  ELSE [connect_p |-> cp, chains |-> ch]

\* connect(): builds the chain once and returns the stored future
connect(cp, ch, ls, ps) ==
  IF cp = 0
  THEN [connect_p |-> Len(ch) + 1,
        chains |-> Append(ch, NewChain(ObjAssign(ObjAssign(<<>>, ls), ps)))]
  ELSE [connect_p |-> cp, chains |-> ch]

\* Promise.all(stream_promises) has fulfilled
AllFulfilled(object) ==
  \A k \in 1..Len(object) : promises[object[k].val].state = "fulfilled"

\* Promise.all(stream_promises) has rejected
SomeRejected(object) ==
  \E k \in 1..Len(object) : promises[object[k].val].state = "rejected"

\* the [name, stream] pairs Promise.all hands to the callback, in order
Resolved(object) ==
  [k \in 1..Len(object) |->
     [name |-> object[k].name, val |-> promises[object[k].val].value]]

PcAddStream(s) == [op |-> "addStream", name |-> "", arg |-> s]
PcAddDataChannel(n, o) == [op |-> "addDataChannel", name |-> n, arg |-> o]
PcConnect == [op |-> "connect", name |-> "", arg |-> ""]

RECURSIVE AddAllStreams(_, _)
\* for (const [name, stream] of streams) { addStream; streams_desc[name] = id }
AddAllStreams(streams, acc) ==
  IF streams = <<>> THEN acc
  ELSE AddAllStreams(Tail(streams),
         [calls |-> Append(acc.calls, PcAddStream(Head(streams).val)),
          desc |-> ObjSet(acc.desc, Head(streams).name, StreamId(Head(streams).val))])

RECURSIVE AddAllChannels(_, _)
\* for (const [name, options] of ...) { addDataChannel; channels_desc[name] = options }
AddAllChannels(chans, acc) ==
  IF chans = <<>> THEN acc
  ELSE AddAllChannels(Tail(chans),
         [calls |-> Append(acc.calls, PcAddDataChannel(Head(chans).name, Head(chans).val)),
          desc |-> ObjSet(acc.desc, Head(chans).name, Head(chans).val)])

\* {...this.local.channels, ...this.private_channels}
MergedChannels(lc, pch) == ObjAssign(ObjAssign(<<>>, lc), pch)

ThenBodyConnectFirst(streams, chans, calls, sdesc, cdesc) ==
  LET s1 == AddAllStreams(streams, [calls |-> Append(calls, PcConnect), desc |-> sdesc])
      s2 == AddAllChannels(chans, [calls |-> s1.calls, desc |-> cdesc])
  IN [calls |-> s2.calls,
      streams_desc |-> s1.desc,
      channels_desc |-> s2.desc]

\* the callback given to Promise.all(...).then: what it calls on the
\* transport and what it leaves in the two local descriptors
ThenBody(streams, chans, calls, sdesc, cdesc) ==
  LET s1 == AddAllStreams(streams, [calls |-> calls, desc |-> sdesc])
      s2 == AddAllChannels(chans, [calls |-> s1.calls, desc |-> cdesc])
  IN [calls |-> Append(s2.calls, PcConnect),
      streams_desc |-> s1.desc,
      channels_desc |-> s2.desc]

AdoptSwallowing(chain, outcome, error) ==
  [chain EXCEPT !.tc = outcome, !.stage = "fulfilled", !.err = ""]

\* the future of connect() follows the future the callback returned
Adopt(chain, outcome, error) ==
  [chain EXCEPT !.tc = outcome, !.stage = outcome, !.err = error]

(* ------------------- RemotePeer: private resources --------------------- *)

\* the lowest handle of the pool not yet standing for a promise
FreshPromise(ps) == CHOOSE h \in Promises :
  /\ ps[h].state = "unused"
  /\ \A g \in Promises : ps[g].state = "unused" => h <= g

HasFresh(ps) == \E h \in Promises : ps[h].state = "unused"

Pending == [state |-> "pending", value |-> ""]
Fulfilled(v) == [state |-> "fulfilled", value |-> v]
Rejected == [state |-> "rejected", value |-> ""]
Unused == [state |-> "unused", value |-> ""]

RetNone == [kind |-> "none", ref |-> 0, name |-> ""]
RetRejected == [kind |-> "rejected", ref |-> 0, name |-> ""]
RetPromise(h) == [kind |-> "promise", ref |-> h, name |-> ""]
RetChannel(n) == [kind |-> "channel_future", ref |-> 0, name |-> n]

\* `if (typeof name !== 'string') { obj = name; name = DEFAULT }`
ArgName(a1, default) == IF a1.type # "string" THEN default ELSE a1.str
ArgObj(a1, a2) == IF a1.type # "string" THEN a1 ELSE a2

\* the promise addStream saves for obj: obj itself when it is a promise,
\* Promise.resolve(obj) for a stream, Stream.createStream(obj) otherwise
StreamPromise(obj, ps) ==
  CASE obj.type = "promise" ->
         [h |-> obj.ref,
          ps |-> IF ps[obj.ref].state = "unused"
                 THEN [ps EXCEPT ![obj.ref] = Pending] ELSE ps]
    [] obj.type = "stream" ->
         [h |-> FreshPromise(ps),
          ps |-> [ps EXCEPT ![FreshPromise(ps)] = Fulfilled(obj.str)]]
    [] OTHER ->
         [h |-> FreshPromise(ps),
          ps |-> [ps EXCEPT ![FreshPromise(ps)] = Pending]]

addStreamFalsy(ac, a1, a2, pst, ps) ==
  IF ~(ac = "false" \/ ac = "zero")
  THEN [ret |-> RetRejected, private_streams |-> pst, promises |-> ps]
  ELSE LET sp == StreamPromise(ArgObj(a1, a2), ps)
       IN [ret |-> RetPromise(sp.h),
           private_streams |-> ObjSet(pst, ArgName(a1, DEFAULT_STREAM), sp.h),
           promises |-> sp.ps]

addStreamNoDefault(ac, a1, a2, pst, ps) ==
  IF ~IsExactlyFalse(ac)
  THEN [ret |-> RetRejected, private_streams |-> pst, promises |-> ps]
  ELSE LET sp == StreamPromise(ArgObj(a1, a2), ps)
       IN [ret |-> RetPromise(sp.h),
           private_streams |-> ObjSet(pst, a1.str, sp.h),
           promises |-> sp.ps]

\* addStream(name, obj)
addStream(ac, a1, a2, pst, ps) ==
  IF ~IsExactlyFalse(ac)
  THEN [ret |-> RetRejected, private_streams |-> pst, promises |-> ps]
  ELSE LET sp == StreamPromise(ArgObj(a1, a2), ps)
       IN [ret |-> RetPromise(sp.h),
           private_streams |-> ObjSet(pst, ArgName(a1, DEFAULT_STREAM), sp.h),
           promises |-> sp.ps]

\* `if (desc == null) { desc = {ordered: true} }`
ArgDesc(d) == IF d.type = "undefined" THEN DefaultDesc ELSE d.str

\* channel(name): `if (name == null) name = DEFAULT_CHANNEL`, then get(name)
channel(name, entries) ==
  LET n == IF name.type = "undefined" THEN DEFAULT_CHANNEL ELSE name.str
  IN [name |-> n, entries |-> CollGet(entries, n)]

addDataChannelNoDefault(ac, a1, a2, pch, entries) ==
  IF ~IsExactlyFalse(ac)
  THEN [ret |-> RetRejected, private_channels |-> pch, entries |-> entries]
  ELSE LET name == ArgName(a1, DEFAULT_CHANNEL)
           c == channel(V_str(name), entries)
       IN [ret |-> RetChannel(c.name),
           private_channels |-> ObjSet(pch, name, ArgObj(a1, a2).str),
           entries |-> c.entries]

\* addDataChannel(name, desc)
addDataChannel(ac, a1, a2, pch, entries) ==
  IF ~IsExactlyFalse(ac)
  THEN [ret |-> RetRejected, private_channels |-> pch, entries |-> entries]
  ELSE LET name == ArgName(a1, DEFAULT_CHANNEL)
           c == channel(V_str(name), entries)
       IN [ret |-> RetChannel(c.name),
           private_channels |-> ObjSet(pch, name, ArgDesc(ArgObj(a1, a2))),
           entries |-> c.entries]

(* -------------------- RemotePeer: signaling wiring --------------------- *)

PcClose == [op |-> "close", name |-> "", arg |-> ""]

\* how often the transport session was told to close
NumCloses(calls) == Cardinality({k \in 1..Len(calls) : calls[k] = PcClose})

onPcSignalingNoChannels(sdesc, cdesc, sent) ==
  [count |-> sent.count + 1, last |-> [streams |-> sdesc, channels |-> <<>>]]

\* peer_connection.on('signaling'): `data.streams = this.streams_desc;
\* data.channels = this.channels_desc; this.signaling.send('signaling', data)`
onPcSignaling(sdesc, cdesc, sent) ==
  [count |-> sent.count + 1, last |-> [streams |-> sdesc, channels |-> cdesc]]

\* close(): `this.peer_connection.close()`
close(calls) == Append(calls, PcClose)

onLeftNoClose(calls, emitted) == [calls |-> calls, left |-> emitted + 1]

\* signaling.on('left'): `this.peer_connection.close(); this.emit('left')`
onLeft(calls, emitted) == [calls |-> Append(calls, PcClose), left |-> emitted + 1]

(* -------------------------------- Room --------------------------------- *)

RoomStates == {"idle", "connecting", "connected", "closed", "failed"}
PeerIds == {"p1", "p2"}
JoinErrors == {"e1", "e2"}

\* `this.peers = {}`
NoPeers == [p \in PeerIds |-> 0]

\* a notification the room emits: its name, the remote peer it carries, the
\* peer map as it is when the listeners run
Ev(name, peer, map) == [ev |-> name, peer |-> peer, peers |-> map]

\* setState(state): `this.state = state; this.emit("state_changed", state)`
Room_setState(s, log) == [state |-> s, log |-> Append(log, s)]

\* the guarded block of Room.connect()
Room_connect(jp, st, log, calls) ==
  IF jp.state = "null"
  THEN LET s == Room_setState("connecting", log)
       IN [join_p |-> [state |-> "pending", err |-> ""],
           state |-> s.state, log |-> s.log,
           calls |-> [calls EXCEPT !.connect = @ + 1]]
  ELSE [join_p |-> jp, state |-> st, log |-> log, calls |-> calls]

\* the future Room.connect() returns: join_p.then(...).catch(...)
NewJoin == [stage |-> "pending", err |-> ""]

Room_connectSettledSwallowing(jp, log) ==
  IF jp.state = "fulfilled"
  THEN LET s == Room_setState("connected", log)
       IN [state |-> s.state, log |-> s.log,
           future |-> [stage |-> "fulfilled", err |-> ""]]
  ELSE LET s == Room_setState("failed", log)
       IN [state |-> s.state, log |-> s.log,
           future |-> [stage |-> "rejected", err |-> ""]]

\* the callbacks Room.connect() chains on join_p: the one that runs, what it
\* does to the room state and how the returned future settles
Room_connectSettled(jp, log) ==
  IF jp.state = "fulfilled"
  THEN LET s == Room_setState("connected", log)
       IN [state |-> s.state, log |-> s.log,
           future |-> [stage |-> "fulfilled", err |-> ""]]
  ELSE LET s == Room_setState("failed", log)
       IN [state |-> s.state, log |-> s.log,
           future |-> [stage |-> "rejected", err |-> jp.err]]

RECURSIVE Room_runCallbacks(_, _, _, _)
\* the callbacks waiting on the settled join_p run one after the other, in
\* the order connect() chained them, before any other notification is handled
Room_runCallbacks(jp, st, log, futures) ==
  IF \A k \in 1..Len(futures) : futures[k].stage # "pending"
  THEN [state |-> st, log |-> log, futures |-> futures]
  ELSE LET k == CHOOSE i \in 1..Len(futures) :
                  /\ futures[i].stage = "pending"
                  /\ \A j \in 1..(i - 1) : futures[j].stage # "pending"
           r == Room_connectSettled(jp, log)
       IN Room_runCallbacks(jp, r.state, r.log, [futures EXCEPT ![k] = r.future])

onClosedAlways(st, log) ==
  LET s == Room_setState("closed", log)
  IN [peers |-> NoPeers,
      emitted |-> <<Ev("closed", 0, NoPeers)>>,
      state |-> s.state,
      log |-> s.log]

\* signaling.on('closed')
onClosed(st, log) ==
  LET s == IF st = "connected" THEN Room_setState("closed", log)
           ELSE [state |-> st, log |-> log]
  IN [peers |-> NoPeers,
      emitted |-> <<Ev("closed", 0, NoPeers)>>,
      state |-> s.state,
      log |-> s.log]

\* createPeer(pc, signaling_peer): `new RemotePeer(pc, signaling_peer, ...)`;
\* of the remote peer the room model keeps the calls on its transport
\* session and the left notifications it has emitted
Room_createPeer(pc, id) == [id |-> id, pc |-> pc, calls |-> <<>>, left |-> 0]

onPeerJoinedReusing(id, map, rps) ==
  LET pc == IF map[id] # 0 THEN rps[map[id]].pc ELSE Len(rps) + 1
      peer == Room_createPeer(pc, id)
      o == Len(rps) + 1
      stored == [map EXCEPT ![id] = o]
  IN [remote_peers |-> Append(rps, peer),
      peers |-> stored,
      emitted |-> <<Ev("peer_joined", o, stored), Ev("peers_changed", 0, stored)>>]

\* signaling.on('peer_joined')
onPeerJoined(id, map, rps) ==
  LET pc == Len(rps) + 1
      peer == Room_createPeer(pc, id)
      o == Len(rps) + 1
      stored == [map EXCEPT ![id] = o]
  IN [remote_peers |-> Append(rps, peer),
      peers |-> stored,
      emitted |-> <<Ev("peer_joined", o, stored), Ev("peers_changed", 0, stored)>>]

onPeerLeftKeeping(o, id, map) ==
  [peers |-> map,
   emitted |-> <<Ev("peer_left", o, map), Ev("peers_changed", 0, map)>>]

\* peer.on('left'): `delete this.peers[signaling_peer.id]`, then the two
\* notifications
onPeerLeft(o, id, map) ==
  LET removed == [map EXCEPT ![id] = 0]
  IN [peers |-> removed,
      emitted |-> <<Ev("peer_left", o, removed), Ev("peers_changed", 0, removed)>>]

\* leave(): `return this.signaling.close()`
Room_leave(calls) == [calls EXCEPT !.close = @ + 1]

\* destroy(): `return this.signaling.close()`
Room_destroy(calls) == [calls EXCEPT !.close = @ + 1]

\* new Room(signaling, options): the state when the constructor returns
RoomConstructed ==
  /\ state = "idle"
  /\ join_p = [state |-> "null", err |-> ""]
  /\ room_connects = <<>>
  /\ signaling_calls = [connect |-> 0, close |-> 0]
  /\ state_log = <<>>
  /\ peers = NoPeers
  /\ remote_peers = <<>>
  /\ last_emit = <<>>
  /\ n_closed = 0

(* --------------------------- initial state ----------------------------- *)

Obj1(n, v) == <<[name |-> n, val |-> v]>>
Obj2(n1, v1, n2, v2) == <<[name |-> n1, val |-> v1], [name |-> n2, val |-> v2]>>

\* the shared local resources the peers are constructed with
LocalStreamConfigs == {<<>>, Obj1("a", 1), Obj2(DEFAULT_STREAM, 1, "a", 2)}
LocalChannelConfigs == {<<>>, Obj1(DEFAULT_CHANNEL, "{ordered:false}")}

NoEntries(names) == [n \in names |-> [status |-> "absent", value |-> ""]]
NoData == [streams |-> <<>>, channels |-> <<>>]
NoRemote(keys) == [k \in keys |-> ""]

\* the fields the constructor sets before it looks at auto_connect
Constructed ==
  /\ auto_connect \in AutoConnectValues
  /\ local_streams \in LocalStreamConfigs
  /\ local_channels \in LocalChannelConfigs
  /\ private_streams = <<>>
  /\ private_channels = <<>>
  /\ promises = [h \in Promises |->
                   IF \E k \in 1..Len(local_streams) : local_streams[k].val = h
                   THEN Pending ELSE Unused]
  /\ streams_desc = <<>>
  /\ channels_desc = <<>>
  /\ pc_calls = <<>>
  /\ last_call = [op |-> "", a1 |-> V_undef, a2 |-> V_undef, ret |-> RetNone]
  /\ n_mutator_calls = 0
  /\ cc_local = <<>>
  /\ cc_entries = NoEntries(ChannelNames)
  /\ cc_remote = NoRemote(ChannelKeys)
  /\ cc_queue = <<>>
  /\ sc_entries = NoEntries(StreamNames)
  /\ sc_remote = NoRemote(StreamKeys)
  /\ sc_queue = <<>>
  /\ pc_signaling = [count |-> 0, last |-> NoData]
  /\ last_get = [coll |-> "", arg |-> V_undef, fut |-> ""]
  /\ delivered = {}
  /\ announced = {}
  /\ queued_ever = {}
  /\ sig_sent = [count |-> 0, last |-> NoData]
  /\ pc_emitted = 0
  /\ left_emitted = 0
  /\ late = [streams |-> {}, channels |-> {}]
  /\ RoomConstructed

\* new RemotePeer(...): the state when the constructor returns
Init ==
  /\ Constructed
  /\ IF AutoConnects(auto_connect)
     THEN LET r == connect(0, <<>>, local_streams, private_streams)
          IN /\ connect_p = r.connect_p
             /\ chains = r.chains
             /\ connect_calls = <<[by |-> "constructor", ret |-> r.connect_p]>>
     ELSE /\ connect_p = 0
          /\ chains = <<>>
          /\ connect_calls = <<>>

(* ------------------------------ actions -------------------------------- *)

\* the application calls connect()
Connect ==
  /\ Len(connect_calls) < MaxConnectCalls
  /\ LET r == connect(connect_p, chains, local_streams, private_streams)
     IN /\ connect_p' = r.connect_p
        /\ chains' = r.chains
        /\ connect_calls' = Append(connect_calls, [by |-> "caller", ret |-> r.connect_p])
  /\ UNCHANGED <<auto_connect, local_streams, local_channels, private_streams,
                 private_channels, promises, streams_desc, channels_desc,
                 pc_calls, last_call, n_mutator_calls, cc_local, cc_entries, resVars,
                 wireVars, roomVars>>

\* a stream promise settles: a local stream becomes available, or fails
SettlePromise(h) ==
  /\ promises[h].state = "pending"
  /\ \/ \E s \in Streams : promises' = [promises EXCEPT ![h] = Fulfilled(s)]
     \/ promises' = [promises EXCEPT ![h] = Rejected]
  /\ UNCHANGED <<auto_connect, local_streams, local_channels, private_streams,
                 private_channels, connect_p, chains, connect_calls,
                 streams_desc, channels_desc, pc_calls, last_call,
                 n_mutator_calls, cc_local, cc_entries, resVars,
                 wireVars, roomVars>>

ConnectBodySetRemote(i) ==
  /\ chains[i].stage = "waiting"
  /\ AllFulfilled(chains[i].streams)
  /\ LET b == ThenBody(Resolved(chains[i].streams),
                       MergedChannels(local_channels, private_channels),
                       pc_calls, streams_desc, channels_desc)
         sl == CollUpdate(Coll(cc_remote, cc_queue, cc_entries), b.channels_desc)
     IN /\ pc_calls' = b.calls
        /\ streams_desc' = b.streams_desc
        /\ channels_desc' = b.channels_desc
        /\ cc_remote' = sl.remote
        /\ cc_queue' = sl.queue
        /\ cc_entries' = sl.entries
  /\ chains' = [chains EXCEPT ![i].stage = "connecting", ![i].tc = "pending"]
  /\ UNCHANGED <<auto_connect, local_streams, local_channels, private_streams,
                 private_channels, promises, connect_p, connect_calls,
                 last_call, n_mutator_calls, cc_local, sc_entries, sc_remote,
                 sc_queue, pc_signaling, last_get, delivered, announced,
                 queued_ever, wireVars, roomVars>>

\* Promise.all fulfilled: the callback of chain i runs, its call of
\* channel_collection.setLocal included
ConnectBody(i) ==
  /\ chains[i].stage = "waiting"
  /\ AllFulfilled(chains[i].streams)
  /\ LET b == ThenBody(Resolved(chains[i].streams),
                       MergedChannels(local_channels, private_channels),
                       pc_calls, streams_desc, channels_desc)
         sl == CollSetLocal(Coll(cc_remote, cc_queue, cc_entries), b.channels_desc)
     IN /\ pc_calls' = b.calls
        /\ streams_desc' = b.streams_desc
        /\ channels_desc' = b.channels_desc
        /\ cc_local' = sl.local
        /\ cc_remote' = sl.coll.remote
        /\ cc_queue' = sl.coll.queue
        /\ cc_entries' = sl.coll.entries
  /\ chains' = [chains EXCEPT ![i].stage = "connecting", ![i].tc = "pending"]
  /\ UNCHANGED <<auto_connect, local_streams, local_channels, private_streams,
                 private_channels, promises, connect_p, connect_calls,
                 last_call, n_mutator_calls, sc_entries, sc_remote, sc_queue,
                 pc_signaling, last_get, delivered, announced, queued_ever,
                 wireVars, roomVars>>

\* Promise.all rejected: the callback never runs, the chain's future rejects
ConnectFails(i) ==
  /\ chains[i].stage = "waiting"
  /\ SomeRejected(chains[i].streams)
  /\ chains' = [chains EXCEPT ![i].stage = "rejected", ![i].err = "stream_error"]
  /\ UNCHANGED <<auto_connect, local_streams, local_channels, private_streams,
                 private_channels, promises, connect_p, connect_calls,
                 streams_desc, channels_desc, pc_calls, last_call,
                 n_mutator_calls, cc_local, cc_entries, resVars,
                 wireVars, roomVars>>

\* the transport's connect future settles
TransportConnectSettles(i) ==
  /\ chains[i].tc = "pending"
  /\ \/ chains' = [chains EXCEPT ![i] = Adopt(chains[i], "fulfilled", "")]
     \/ chains' = [chains EXCEPT ![i] = Adopt(chains[i], "rejected", "pc_error")]
  /\ UNCHANGED <<auto_connect, local_streams, local_channels, private_streams,
                 private_channels, promises, connect_p, connect_calls,
                 streams_desc, channels_desc, pc_calls, last_call,
                 n_mutator_calls, cc_local, cc_entries, resVars,
                 wireVars, roomVars>>

\* what the application passes as a stream: a promise it already holds, a
\* stream, a configuration for Stream.createStream
StreamObjs(ps) ==
  {V_promise(h) : h \in {g \in Promises : ps[g].state # "unused"}}
  \cup (IF HasFresh(ps) THEN {V_stream(s) : s \in Streams} \cup {V_config} ELSE {})

\* the names the application passes explicitly; the defaults are reached by
\* omitting the name
GivenStreamNames == StreamNames \ {DEFAULT_STREAM}
GivenChannelNames == ChannelNames \ {DEFAULT_CHANNEL}
GivenOptions == ChannelOptions \ {DefaultDesc}

\* the application calls addStream(name, obj) or addStream(obj)
AddStreamCall ==
  /\ n_mutator_calls < MaxMutatorCalls
  /\ \E obj \in StreamObjs(promises) :
       \E a \in {<<V_str(n), obj>> : n \in GivenStreamNames} \cup {<<obj, V_undef>>} :
         LET r == addStream(auto_connect, a[1], a[2], private_streams, promises)
         IN /\ last_call' = [op |-> "addStream", a1 |-> a[1], a2 |-> a[2], ret |-> r.ret]
            /\ private_streams' = r.private_streams
            /\ promises' = r.promises
  /\ n_mutator_calls' = n_mutator_calls + 1
  /\ UNCHANGED <<auto_connect, local_streams, local_channels, private_channels,
                 connect_p, chains, connect_calls, streams_desc, channels_desc,
                 pc_calls, cc_local, cc_entries, resVars, roomVars>>

AddStream == AddStreamCall /\ UNCHANGED wireVars

\* the application calls addDataChannel(name, desc), (name), (desc) or ()
AddDataChannelCall ==
  /\ n_mutator_calls < MaxMutatorCalls
  /\ \E d \in {V_options(o) : o \in GivenOptions} \cup {V_undef} :
       \E a \in {<<V_str(n), d>> : n \in GivenChannelNames} \cup {<<d, V_undef>>} :
         LET r == addDataChannel(auto_connect, a[1], a[2], private_channels, cc_entries)
         IN /\ last_call' = [op |-> "addDataChannel", a1 |-> a[1], a2 |-> a[2], ret |-> r.ret]
            /\ private_channels' = r.private_channels
            /\ cc_entries' = r.entries
  /\ n_mutator_calls' = n_mutator_calls + 1
  /\ UNCHANGED <<auto_connect, local_streams, local_channels, private_streams,
                 promises, connect_p, chains, connect_calls, streams_desc,
                 channels_desc, pc_calls, cc_local, resVars, roomVars>>

AddDataChannel == AddDataChannelCall /\ UNCHANGED wireVars

Next ==
  \/ Connect
  \/ \E h \in Promises : SettlePromise(h)
  \/ \E i \in 1..Len(chains) : ConnectBody(i)
  \/ \E i \in 1..Len(chains) : ConnectFails(i)
  \/ \E i \in 1..Len(chains) : TransportConnectSettles(i)
  \/ AddStream
  \/ AddDataChannel

Spec == Init /\ [][Next]_vars

(* ----------------- actions: resolution of remote resources ------------- *)

\* the remote descriptors an inbound payload carries
StreamDescs ==
  {<<>>, Obj1("a", "kA"), Obj1("a", "kB"), Obj1(DEFAULT_STREAM, "kA"),
   Obj2(DEFAULT_STREAM, "kA", "a", "kB"), Obj2(DEFAULT_STREAM, "kB", "a", "kB")}
ChannelDescs == {<<>>, Obj1(DEFAULT_CHANNEL, DefaultDesc)}

Pairs(desc) == {<<desc[k].val, desc[k].name>> : k \in 1..Len(desc)}

\* the application calls stream(name) or stream()
Stream ==
  /\ \E a \in {V_str(n) : n \in StreamNames} \cup {V_undef} :
       LET r == stream(a, sc_entries)
       IN /\ sc_entries' = r.entries
          /\ last_get' = [coll |-> "stream", arg |-> a, fut |-> r.name]
  /\ UNCHANGED <<connVars, cc_entries, cc_remote, cc_queue, sc_remote, sc_queue,
                 pc_signaling, delivered, announced, queued_ever,
                 wireVars, roomVars>>

\* the application calls channel(name) or channel()
Channel ==
  /\ \E a \in {V_str(n) : n \in ChannelNames} \cup {V_undef} :
       LET r == channel(a, cc_entries)
       IN /\ cc_entries' = r.entries
          /\ last_get' = [coll |-> "channel", arg |-> a, fut |-> r.name]
  /\ UNCHANGED <<connVars, cc_remote, cc_queue, sc_entries, sc_remote, sc_queue,
                 pc_signaling, delivered, announced, queued_ever,
                 wireVars, roomVars>>

\* the transport emits stream_added(stream)
OnStreamAdded ==
  /\ \E s \in Streams :
       /\ sc_remote[StreamId(s)] # "" \/ Len(sc_queue) < MaxQueue
       /\ LET c == onStreamAdded(s, Coll(sc_remote, sc_queue, sc_entries))
          IN /\ sc_remote' = c.remote
             /\ sc_queue' = c.queue
             /\ sc_entries' = c.entries
             /\ queued_ever' = IF c.queue # sc_queue THEN queued_ever \cup {s}
                               ELSE queued_ever
       /\ delivered' = delivered \cup {s}
  /\ UNCHANGED <<connVars, cc_entries, cc_remote, cc_queue, pc_signaling,
                 last_get, announced,
                 wireVars, roomVars>>

\* the transport emits data_channel_ready(channel)
OnDataChannelReady ==
  /\ \E ch \in Channels :
       /\ cc_remote[ChannelKey(ch)] # "" \/ Len(cc_queue) < MaxQueue
       /\ LET c == onDataChannelReady(ch, Coll(cc_remote, cc_queue, cc_entries))
          IN /\ cc_remote' = c.remote
             /\ cc_queue' = c.queue
             /\ cc_entries' = c.entries
             /\ queued_ever' = IF c.queue # cc_queue THEN queued_ever \cup {ch}
                               ELSE queued_ever
       /\ delivered' = delivered \cup {ch}
  /\ UNCHANGED <<connVars, sc_entries, sc_remote, sc_queue, pc_signaling,
                 last_get, announced,
                 wireVars, roomVars>>

\* the signaling session emits signaling(data)
OnSignaling ==
  /\ pc_signaling.count < MaxSignalingIn
  /\ \E sd \in StreamDescs, cd \in ChannelDescs :
       LET data == [streams |-> sd, channels |-> cd]
           r == onSignaling(data, Coll(sc_remote, sc_queue, sc_entries),
                            Coll(cc_remote, cc_queue, cc_entries), pc_signaling)
       IN /\ sc_remote' = r.sc.remote
          /\ sc_queue' = r.sc.queue
          /\ sc_entries' = r.sc.entries
          /\ cc_remote' = r.cc.remote
          /\ cc_queue' = r.cc.queue
          /\ cc_entries' = r.cc.entries
          /\ pc_signaling' = r.forwarded
          /\ announced' = announced \cup Pairs(sd) \cup Pairs(cd)
  /\ UNCHANGED <<connVars, last_get, delivered, queued_ever,
                 wireVars, roomVars>>

NextResolve ==
  \/ Stream
  \/ Channel
  \/ OnStreamAdded
  \/ OnDataChannelReady
  \/ OnSignaling

\* a peer constructed without shared resources and left unconnected
InitResolve ==
  /\ Init
  /\ auto_connect = "false"
  /\ local_streams = <<>>
  /\ local_channels = <<>>

SpecResolve == InitResolve /\ [][NextResolve]_vars

(* ------------------ remote_peer.coffee: the constructor ----------------- *)

\* `not @options.auto_connect? or not @options.auto_connect`
CoffeeAutoConnects(ac) == IsNullish(ac) \/ ~Truthy(ac)

\* connect() of remote_peer.coffee: awaits the shared streams only
coffeeConnect(cp, ch, ls) ==
  IF cp = 0
  THEN [connect_p |-> Len(ch) + 1, chains |-> Append(ch, NewChain(ls))]
  ELSE [connect_p |-> cp, chains |-> ch]

\* the pairs the `then` callbacks build: each callback reads the loop
\* variable `name` after the loop has ended, so every pair carries the last name
CoffeeResolved(object) ==
  [k \in 1..Len(object) |->
     [name |-> object[Len(object)].name, val |-> promises[object[k].val].value]]

InitCoffee ==
  /\ Constructed
  /\ IF CoffeeAutoConnects(auto_connect)
     THEN LET r == coffeeConnect(0, <<>>, local_streams)
          IN /\ connect_p = r.connect_p
             /\ chains = r.chains
             /\ connect_calls = <<[by |-> "constructor", ret |-> r.connect_p]>>
     ELSE /\ connect_p = 0
          /\ chains = <<>>
          /\ connect_calls = <<>>

CoffeeConnect ==
  /\ Len(connect_calls) < MaxConnectCalls
  /\ LET r == coffeeConnect(connect_p, chains, local_streams)
     IN /\ connect_p' = r.connect_p
        /\ chains' = r.chains
        /\ connect_calls' = Append(connect_calls, [by |-> "caller", ret |-> r.connect_p])
  /\ UNCHANGED <<auto_connect, local_streams, local_channels, private_streams,
                 private_channels, promises, streams_desc, channels_desc,
                 pc_calls, last_call, n_mutator_calls, cc_local, cc_entries, resVars,
                 wireVars, roomVars>>

CoffeeConnectBody(i) ==
  /\ chains[i].stage = "waiting"
  /\ AllFulfilled(chains[i].streams)
  /\ LET b == ThenBody(CoffeeResolved(chains[i].streams), local_channels,
                       pc_calls, streams_desc, channels_desc)
         sl == CollSetLocal(Coll(cc_remote, cc_queue, cc_entries), b.channels_desc)
     IN /\ pc_calls' = b.calls
        /\ streams_desc' = b.streams_desc
        /\ channels_desc' = b.channels_desc
        /\ cc_local' = sl.local
        /\ cc_remote' = sl.coll.remote
        /\ cc_queue' = sl.coll.queue
        /\ cc_entries' = sl.coll.entries
  /\ chains' = [chains EXCEPT ![i].stage = "connecting", ![i].tc = "pending"]
  /\ UNCHANGED <<auto_connect, local_streams, local_channels, private_streams,
                 private_channels, promises, connect_p, connect_calls,
                 last_call, n_mutator_calls, sc_entries, sc_remote, sc_queue,
                 pc_signaling, last_get, delivered, announced, queued_ever,
                 wireVars, roomVars>>

NextCoffee ==
  \/ CoffeeConnect
  \/ \E h \in Promises : SettlePromise(h)
  \/ \E i \in 1..Len(chains) : CoffeeConnectBody(i)
  \/ \E i \in 1..Len(chains) : ConnectFails(i)
  \/ \E i \in 1..Len(chains) : TransportConnectSettles(i)

SpecCoffee == InitCoffee /\ [][NextCoffee]_vars

(* ---------------- actions: outgoing signaling and close ---------------- *)

\* the transport emits signaling(data)
OnPcSignaling ==
  /\ pc_emitted < MaxPcSignaling
  /\ pc_emitted' = pc_emitted + 1
  /\ sig_sent' = onPcSignaling(streams_desc, channels_desc, sig_sent)
  /\ UNCHANGED <<connVars, cc_entries, resVars, left_emitted, late, roomVars>>

\* the application calls close()
Close ==
  /\ NumCloses(pc_calls) < MaxCloses
  /\ pc_calls' = close(pc_calls)
  /\ UNCHANGED <<auto_connect, local_streams, local_channels, private_streams,
                 private_channels, promises, connect_p, chains, connect_calls,
                 streams_desc, channels_desc, last_call, n_mutator_calls,
                 cc_local, cc_entries, resVars, wireVars, roomVars>>

\* the signaling peer emits left
OnLeft ==
  /\ NumCloses(pc_calls) < MaxCloses
  /\ LET r == onLeft(pc_calls, left_emitted)
     IN /\ pc_calls' = r.calls
        /\ left_emitted' = r.left
  /\ UNCHANGED <<auto_connect, local_streams, local_channels, private_streams,
                 private_channels, promises, connect_p, chains, connect_calls,
                 streams_desc, channels_desc, last_call, n_mutator_calls,
                 cc_local, cc_entries, resVars, sig_sent, pc_emitted, late,
                 roomVars>>

NextWire ==
  \/ Connect
  \/ \E h \in Promises : SettlePromise(h)
  \/ \E i \in 1..Len(chains) : ConnectBody(i)
  \/ \E i \in 1..Len(chains) : ConnectFails(i)
  \/ \E i \in 1..Len(chains) : TransportConnectSettles(i)
  \/ OnPcSignaling
  \/ Close
  \/ OnLeft

SpecWire == Init /\ [][NextWire]_vars

(* ------------ actions: resources registered around connect() ------------ *)

\* the names declared, shared or private, at this moment
DeclaredStreams == ObjKeys(local_streams) \cup ObjKeys(private_streams)
DeclaredChannels == ObjKeys(local_channels) \cup ObjKeys(private_channels)

\* addStream before connect() has been invoked
AddStreamEarly == connect_p = 0 /\ AddStream

\* addDataChannel before connect() has been invoked
AddDataChannelEarly == connect_p = 0 /\ AddDataChannel

\* addStream after connect() has been invoked; a name it declares for the
\* first time is recorded
AddStreamLate ==
  /\ connect_p # 0
  /\ AddStreamCall
  /\ late' = [late EXCEPT !.streams = @ \cup (DeclaredStreams' \ DeclaredStreams)]
  /\ UNCHANGED <<sig_sent, pc_emitted, left_emitted>>

\* addDataChannel after connect() has been invoked; a name it declares for
\* the first time is recorded
AddDataChannelLate ==
  /\ connect_p # 0
  /\ AddDataChannelCall
  /\ late' = [late EXCEPT !.channels = @ \cup (DeclaredChannels' \ DeclaredChannels)]
  /\ UNCHANGED <<sig_sent, pc_emitted, left_emitted>>

NextLate ==
  \/ Connect
  \/ \E h \in Promises : SettlePromise(h)
  \/ \E i \in 1..Len(chains) : ConnectBody(i)
  \/ \E i \in 1..Len(chains) : ConnectFails(i)
  \/ \E i \in 1..Len(chains) : TransportConnectSettles(i)
  \/ AddStreamEarly
  \/ AddDataChannelEarly
  \/ AddStreamLate
  \/ AddDataChannelLate

\* a peer built with auto_connect: false, the only one that accepts private
\* resources
InitLate == Init /\ auto_connect = "false"

SpecLate == InitLate /\ [][NextLate]_vars

(* ------------- actions: the two descriptor directions together ---------- *)

\* a peer that connects at construction, one shared stream and one shared
\* channel declared
InitDirections ==
  /\ Init
  /\ auto_connect = "unset"
  /\ local_streams = Obj1("a", 1)
  /\ local_channels = Obj1(DEFAULT_CHANNEL, "{ordered:false}")

NextDirections ==
  \/ Connect
  \/ \E h \in Promises : SettlePromise(h)
  \/ \E i \in 1..Len(chains) : ConnectBody(i)
  \/ \E i \in 1..Len(chains) : ConnectFails(i)
  \/ \E i \in 1..Len(chains) : TransportConnectSettles(i)
  \/ Stream
  \/ Channel
  \/ OnSignaling

SpecDirections == InitDirections /\ [][NextDirections]_vars

(* ---------------------------- actions: Room ---------------------------- *)

\* the application calls Room.connect()
RoomConnect ==
  /\ Len(room_connects) < MaxRoomConnects
  /\ LET r == Room_connect(join_p, state, state_log, signaling_calls)
     IN /\ join_p' = r.join_p
        /\ state' = r.state
        /\ state_log' = r.log
        /\ signaling_calls' = r.calls
  /\ room_connects' = Append(room_connects, NewJoin)
  /\ UNCHANGED <<connVars, cc_entries, resVars, wireVars, peers, remote_peers,
                 last_emit, n_closed>>

\* the future of signaling.connect() settles
SignalingConnectSettles ==
  /\ join_p.state = "pending"
  /\ \/ join_p' = [state |-> "fulfilled", err |-> ""]
     \/ \E e \in JoinErrors : join_p' = [state |-> "rejected", err |-> e]
  /\ UNCHANGED <<connVars, cc_entries, resVars, wireVars, state, room_connects,
                 signaling_calls, state_log, peers, remote_peers, last_emit,
                 n_closed>>

\* join_p has settled: the callbacks chained on it by connect() run
RoomConnectSettled ==
  /\ join_p.state \in {"fulfilled", "rejected"}
  /\ \E k \in 1..Len(room_connects) : room_connects[k].stage = "pending"
  /\ LET r == Room_runCallbacks(join_p, state, state_log, room_connects)
     IN /\ state' = r.state
        /\ state_log' = r.log
        /\ room_connects' = r.futures
  /\ UNCHANGED <<connVars, cc_entries, resVars, wireVars, join_p,
                 signaling_calls, peers, remote_peers, last_emit, n_closed>>

\* the signaling session emits closed
OnClosed ==
  /\ n_closed < MaxClosed
  /\ n_closed' = n_closed + 1
  /\ LET r == onClosed(state, state_log)
     IN /\ peers' = r.peers
        /\ last_emit' = r.emitted
        /\ state' = r.state
        /\ state_log' = r.log
  /\ UNCHANGED <<connVars, cc_entries, resVars, wireVars, join_p, room_connects,
                 signaling_calls, remote_peers>>

\* the signaling session emits peer_joined(signaling_peer)
OnPeerJoined(id) ==
  /\ Len(remote_peers) < MaxJoins
  /\ LET r == onPeerJoined(id, peers, remote_peers)
     IN /\ remote_peers' = r.remote_peers
        /\ peers' = r.peers
        /\ last_emit' = r.emitted
  /\ UNCHANGED <<connVars, cc_entries, resVars, wireVars, state, join_p,
                 room_connects, signaling_calls, state_log, n_closed>>

\* the signaling peer of remote peer o emits left: the remote peer's handler
\* runs, and the room's handler on the left it emits
OnPeerLeft(o) ==
  /\ remote_peers[o].left = 0
  /\ LET l == onLeft(remote_peers[o].calls, remote_peers[o].left)
         r == onPeerLeft(o, remote_peers[o].id, peers)
     IN /\ remote_peers' = [remote_peers EXCEPT ![o].calls = l.calls,
                                                ![o].left = l.left]
        /\ peers' = r.peers
        /\ last_emit' = r.emitted
  /\ UNCHANGED <<connVars, cc_entries, resVars, wireVars, state, join_p,
                 room_connects, signaling_calls, state_log, n_closed>>

\* the application calls leave()
Leave ==
  /\ signaling_calls.close < MaxLeaves
  /\ signaling_calls' = Room_leave(signaling_calls)
  /\ UNCHANGED <<connVars, cc_entries, resVars, wireVars, state, join_p,
                 room_connects, state_log, peers, remote_peers, last_emit,
                 n_closed>>

\* the application calls destroy()
Destroy ==
  /\ signaling_calls.close < MaxLeaves
  /\ signaling_calls' = Room_destroy(signaling_calls)
  /\ UNCHANGED <<connVars, cc_entries, resVars, wireVars, state, join_p,
                 room_connects, state_log, peers, remote_peers, last_emit,
                 n_closed>>

NextRoom ==
  \/ RoomConnect
  \/ SignalingConnectSettles
  \/ RoomConnectSettled
  \/ OnClosed
  \/ \E id \in PeerIds : OnPeerJoined(id)
  \/ \E o \in 1..Len(remote_peers) : OnPeerLeft(o)
  \/ Leave
  \/ Destroy

\* a room whose local peer declares nothing
InitRoom ==
  /\ Init
  /\ auto_connect = "false"
  /\ local_streams = <<>>
  /\ local_channels = <<>>

SpecRoom == InitRoom /\ [][NextRoom]_vars

\* the teardown of the signaling session: once close() was called on it,
\* each of its peers emits left
TearingDown == signaling_calls.close > 0

\* the peer lifecycle of a room on which connect() is not called
NextLeave ==
  \/ OnClosed
  \/ \E id \in PeerIds : OnPeerJoined(id)
  \/ \E o \in 1..Len(remote_peers) : OnPeerLeft(o)
  \/ Leave
  \/ Destroy

SpecLeave ==
  /\ InitRoom
  /\ [][NextLeave]_vars
  /\ \A o \in 1..MaxJoins :
       WF_vars(TearingDown /\ o <= Len(remote_peers) /\ OnPeerLeft(o))

(* ============================== claims ================================== *)

InSeq(x, s) == \E k \in 1..Len(s) : s[k] = x
CountOp(op, s) == Cardinality({k \in 1..Len(s) : s[k].op = op})
CountChannel(n, s) ==
  Cardinality({k \in 1..Len(s) : s[k].op = "addDataChannel" /\ s[k].name = n})
\* the calls a step adds to the transport's log
NewCalls == SubSeq(pc_calls', Len(pc_calls) + 1, Len(pc_calls'))
\* chain i's callback runs in this step
BodyRuns(i) == chains[i].tc = "none" /\ chains'[i].tc # "none"
\* this step is the connect() call that builds the chain
ChainBuilt == connect_p = 0 /\ connect_p' # 0
\* this step is an addStream / addDataChannel call
MutatorCalled == n_mutator_calls' # n_mutator_calls
EveryFulfilled(object) ==
  \A k \in 1..Len(object) : promises[object[k].val].state = "fulfilled"

(* C1: every connect() call, the constructor's included, returns the one     *)
(* stored future; at most one chain is ever built, and the transport sees    *)
(* connect at most once, each awaited stream at most once and each channel   *)
(* name at most once.                                                        *)
C1_SingleFlight ==
  /\ \A k \in 1..Len(connect_calls) :
       connect_calls[k].ret # 0 /\ connect_calls[k].ret = connect_p
  /\ Len(chains) <= 1
  /\ chains = <<>> => pc_calls = <<>>
  /\ CountOp("connect", pc_calls) <= 1
  /\ chains # <<>> => CountOp("addStream", pc_calls) <= Len(chains[1].streams)
  /\ \A n \in ChannelNames : CountChannel(n, pc_calls) <= 1

\* connect() was called again after the constructor's call and the sequence ran
C1_Witness ==
  /\ Len(connect_calls) >= 2
  /\ connect_calls[1].by = "constructor"
  /\ connect_calls[2].by = "caller"
  /\ CountOp("addStream", pc_calls) >= 1
  /\ CountOp("connect", pc_calls) = 1

Rank(op) == CASE op = "addStream" -> 1 [] op = "addDataChannel" -> 2 [] OTHER -> 3

\* the transport's log is streams, then channels, then one connect; a chain
\* whose callback ran had every stream resolved, added and recorded
C4_Order ==
  /\ \A j, k \in 1..Len(pc_calls) : j < k => Rank(pc_calls[j].op) <= Rank(pc_calls[k].op)
  /\ pc_calls # <<>> => pc_calls[Len(pc_calls)].op = "connect"
  /\ pc_calls # <<>> => \E i \in 1..Len(chains) : chains[i].tc # "none"
  /\ \A i \in 1..Len(chains) :
       chains[i].tc # "none" =>
         /\ EveryFulfilled(chains[i].streams)
         /\ \A k \in 1..Len(chains[i].streams) :
              LET e == chains[i].streams[k]
                  s == promises[e.val].value
              IN /\ InSeq(PcAddStream(s), pc_calls)
                 /\ ObjHas(streams_desc, e.name)
                 /\ ObjGet(streams_desc, e.name) = StreamId(s)
  /\ \A k \in 1..Len(pc_calls) :
       pc_calls[k].op = "addDataChannel" =>
         /\ ObjHas(channels_desc, pc_calls[k].name)
         /\ ObjGet(channels_desc, pc_calls[k].name) = pc_calls[k].arg

\* the callback runs only once every awaited stream future has resolved, and
\* creates and records every channel declared at that moment
C4_Step ==
  pc_calls' # pc_calls =>
    \E i \in 1..Len(chains) :
      /\ BodyRuns(i)
      /\ chains[i].stage = "waiting"
      /\ EveryFulfilled(chains[i].streams)
      /\ \A n \in ObjKeys(local_channels) \cup ObjKeys(private_channels) :
           /\ CountChannel(n, NewCalls) = 1
           /\ ObjHas(channels_desc', n)

\* while a stream future is still pending the connect future stays pending
C4_UnresolvedStaysPending ==
  \A i \in 1..Len(chains) :
    (\E k \in 1..Len(chains[i].streams) :
       promises[chains[i].streams[k].val].state = "pending") =>
      /\ chains[i].tc = "none"
      /\ pc_calls = <<>>
      /\ chains[i].stage = "waiting"

\* while a stream future is unresolved the connect future is pending, or
\* rejected because one of the stream futures rejected
C4_UnresolvedNeverFulfils ==
  \A i \in 1..Len(chains) :
    ~EveryFulfilled(chains[i].streams) =>
      /\ chains[i].tc = "none"
      /\ pc_calls = <<>>
      /\ chains[i].stage \in {"waiting", "rejected"}
      /\ chains[i].stage = "rejected" =>
           \E k \in 1..Len(chains[i].streams) :
             promises[chains[i].streams[k].val].state = "rejected"

(* C4 (as stated): the connect protocol runs in a fixed order, and while a   *)
(* merged local stream future has not resolved nothing is called on the      *)
(* transport and the connect future stays pending.                           *)
C4_AsStated == C4_Order /\ C4_UnresolvedStaysPending

(* C4 (amended): no transport call happens before every merged local stream  *)
(* future has resolved; until then the connect future never fulfils: it is   *)
(* pending, or rejected once one of the stream futures has rejected.  Then   *)
(* every stream is added and recorded, then every channel is created and     *)
(* recorded, and only then is transport.connect invoked.                     *)
C4_ConnectOrder ==
  /\ [](C4_Order /\ C4_UnresolvedNeverFulfils)
  /\ [][C4_Step]_vars

\* two streams were awaited and added, a channel created, then connect invoked
C4_Witness ==
  /\ Len(pc_calls) >= 4
  /\ pc_calls[1].op = "addStream"
  /\ pc_calls[2].op = "addStream"
  /\ pc_calls[3].op = "addDataChannel"
  /\ pc_calls[Len(pc_calls)].op = "connect"

\* connect() builds the merged stream declarations: every private entry as
\* it is, a shared entry only under a name no private entry has, each name once
MergedPrivateWins ==
  ChainBuilt =>
    LET object == chains'[connect_p'].streams
    IN /\ ObjKeys(object) = ObjKeys(local_streams) \cup ObjKeys(private_streams)
       /\ Len(object) = Cardinality(ObjKeys(object))
       /\ \A n \in ObjKeys(private_streams) :
            ObjGet(object, n) = ObjGet(private_streams, n)
       /\ \A n \in ObjKeys(local_streams) \ ObjKeys(private_streams) :
            ObjGet(object, n) = ObjGet(local_streams, n)

\* the merged declarations a chain awaits never change afterwards
MergedIsFixed ==
  \A i \in 1..Len(chains) : chains'[i].streams = chains[i].streams

\* the callback adds exactly the awaited streams and records each one's key
AwaitedStreamsApplied ==
  pc_calls' # pc_calls =>
    \E i \in 1..Len(chains) :
      /\ BodyRuns(i)
      /\ CountOp("addStream", NewCalls) = Len(chains[i].streams)
      /\ \A k \in 1..Len(chains[i].streams) :
           LET e == chains[i].streams[k]
               s == promises[e.val].value
           IN /\ NewCalls[k] = PcAddStream(s)
              /\ ObjGet(streams_desc', e.name) = StreamId(s)

\* the callback creates every private channel with its registered options
PrivateChannelsApplied ==
  pc_calls' # pc_calls =>
    \A n \in ObjKeys(private_channels) :
      /\ InSeq(PcAddDataChannel(n, ObjGet(private_channels, n)), NewCalls)
      /\ CountChannel(n, NewCalls) = 1
      /\ ObjGet(channels_desc', n) = ObjGet(private_channels, n)

(* C5: a name declared both shared and private is applied once, with the     *)
(* private declaration: the private stream is what the chain awaits, what    *)
(* the transport receives and whose key the local stream descriptor records; *)
(* the private options are what the channel is created with and what the     *)
(* local channel descriptor records.                                         *)
C5_PrivateOverridesShared ==
  /\ [][MergedPrivateWins]_vars
  /\ [][MergedIsFixed]_vars
  /\ [][AwaitedStreamsApplied]_vars
  /\ [][PrivateChannelsApplied]_vars

\* connect ran with a stream name and a channel name declared on both sides,
\* the private stream and options differing from the shared ones
C5_Witness ==
  /\ chains # <<>>
  /\ chains[1].tc # "none"
  /\ \E n \in ObjKeys(local_streams) \cap ObjKeys(chains[1].streams) :
       LET sh == promises[ObjGet(local_streams, n)]
           pr == promises[ObjGet(chains[1].streams, n)]
       IN /\ ObjGet(local_streams, n) # ObjGet(chains[1].streams, n)
          /\ sh.state = "fulfilled"
          /\ pr.state = "fulfilled"
          /\ sh.value # pr.value
          /\ ObjGet(streams_desc, n) = StreamId(pr.value)
          /\ ~InSeq(PcAddStream(sh.value), pc_calls)
  /\ \E n \in ObjKeys(local_channels) \cap ObjKeys(private_channels) :
       /\ ObjGet(local_channels, n) # ObjGet(private_channels, n)
       /\ InSeq(PcAddDataChannel(n, ObjGet(private_channels, n)), pc_calls)
       /\ ObjGet(channels_desc, n) = ObjGet(private_channels, n)

(* C6: an addStream or addDataChannel call on a peer whose auto_connect is   *)
(* not exactly false returns a rejected future and changes nothing else.     *)
C6_MutatorsRejected ==
  [][(MutatorCalled /\ auto_connect # "false") =>
       /\ last_call'.ret = [kind |-> "rejected", ref |-> 0, name |-> ""]
       /\ UNCHANGED <<private_streams, private_channels, promises, streams_desc,
                      channels_desc, connect_p, chains, pc_calls, cc_local,
                      cc_entries, cc_remote, cc_queue, sc_entries, sc_remote,
                      sc_queue>>]_vars

\* addStream and addDataChannel were both rejected on a peer with auto_connect 0
C6_Witness ==
  /\ auto_connect = "zero"
  /\ n_mutator_calls = 2
  /\ last_call.op = "addDataChannel"
  /\ last_call.ret.kind = "rejected"
  /\ private_streams = <<>>
  /\ private_channels = <<>>

\* the name and the object an addStream / addDataChannel call was given
CallName(c, default) == IF c.a1.type = "string" THEN c.a1.str ELSE default
CallObj(c) == IF c.a1.type = "string" THEN c.a2 ELSE c.a1

\* addStream with auto_connect false stores the stream's future under the name
\* and returns it
C7_AddStep ==
  (MutatorCalled /\ last_call'.op = "addStream" /\ auto_connect = "false") =>
    LET name == CallName(last_call', DEFAULT_STREAM)
        obj == CallObj(last_call')
        h == last_call'.ret.ref
    IN /\ last_call'.ret.kind = "promise"
       /\ ObjKeys(private_streams') = ObjKeys(private_streams) \cup {name}
       /\ ObjGet(private_streams', name) = h
       /\ \A n \in ObjKeys(private_streams) \ {name} :
            ObjGet(private_streams', n) = ObjGet(private_streams, n)
       /\ obj.type = "stream" =>
            promises'[h] = [state |-> "fulfilled", value |-> obj.str]
       /\ obj.type = "promise" => h = obj.ref /\ promises'[h] = promises[h]
       /\ obj.type = "config" =>
            promises[h].state = "unused" /\ promises'[h].state = "pending"

(* C7: with auto_connect false, addStream(name, source) stores the stream    *)
(* future under private_streams[name] (the default name when the name is     *)
(* omitted) and returns it; a connect() invoked afterwards awaits it, adds   *)
(* its stream to the transport and records name -> key.                      *)
C7_AddStreamThenConnect ==
  /\ [][C7_AddStep]_vars
  /\ [][ChainBuilt =>
          \A n \in ObjKeys(private_streams) :
            /\ ObjHas(chains'[connect_p'].streams, n)
            /\ ObjGet(chains'[connect_p'].streams, n) = ObjGet(private_streams, n)]_vars
  /\ [][pc_calls' # pc_calls =>
          \E i \in 1..Len(chains) :
            /\ BodyRuns(i)
            /\ \A k \in 1..Len(chains[i].streams) :
                 LET e == chains[i].streams[k]
                     s == promises[e.val].value
                 IN /\ promises[e.val].state = "fulfilled"
                    /\ InSeq(PcAddStream(s), NewCalls)
                    /\ ObjGet(streams_desc', e.name) = StreamId(s)]_vars

\* addStream(stream) without a name, then connect: the stream was added and
\* the default name records its key
C7_Witness ==
  /\ auto_connect = "false"
  /\ last_call.op = "addStream"
  /\ last_call.a1.type = "stream"
  /\ ObjHas(private_streams, DEFAULT_STREAM)
  /\ promises[ObjGet(private_streams, DEFAULT_STREAM)].value = last_call.a1.str
  /\ InSeq(PcAddStream(last_call.a1.str), pc_calls)
  /\ ObjHas(streams_desc, DEFAULT_STREAM)
  /\ ObjGet(streams_desc, DEFAULT_STREAM) = StreamId(last_call.a1.str)

\* addDataChannel with auto_connect false registers the given options, or
\* {ordered: true} when none are given, under the name
C8_AddStep ==
  (MutatorCalled /\ last_call'.op = "addDataChannel" /\ auto_connect = "false") =>
    LET name == CallName(last_call', DEFAULT_CHANNEL)
        obj == CallObj(last_call')
    IN /\ ObjKeys(private_channels') = ObjKeys(private_channels) \cup {name}
       /\ ObjGet(private_channels', name) =
            (IF obj.type = "undefined" THEN "{ordered:true}" ELSE obj.str)
       /\ \A n \in ObjKeys(private_channels) \ {name} :
            ObjGet(private_channels', n) = ObjGet(private_channels, n)

(* C8: with auto_connect false, addDataChannel(name) without options         *)
(* registers {ordered: true} under private_channels[name], given options are *)
(* registered as given, and a connect() invoked afterwards creates the       *)
(* channel with exactly the registered options and records name -> options.  *)
C8_AddDataChannelThenConnect ==
  /\ [][C8_AddStep]_vars
  /\ [][pc_calls' # pc_calls =>
          \A n \in ObjKeys(private_channels) :
            /\ CountChannel(n, NewCalls) = 1
            /\ InSeq(PcAddDataChannel(n, ObjGet(private_channels, n)), NewCalls)
            /\ ObjGet(channels_desc', n) = ObjGet(private_channels, n)]_vars

\* addDataChannel('chat') without options, then connect
C8_Witness ==
  /\ auto_connect = "false"
  /\ last_call.op = "addDataChannel"
  /\ last_call.a1 = [type |-> "string", str |-> "chat", ref |-> 0]
  /\ last_call.a2.type = "undefined"
  /\ InSeq(PcAddDataChannel("chat", "{ordered:true}"), pc_calls)
  /\ ObjHas(channels_desc, "chat")
  /\ ObjGet(channels_desc, "chat") = "{ordered:true}"

(* C9: auto_connect true or unset: the constructor starts connect; false:    *)
(* no chain is built and nothing is called on the transport before the       *)
(* caller invokes connect().                                                 *)
C9_AutoConnectDecides ==
  /\ auto_connect \in {"true", "unset"} =>
       /\ connect_calls # <<>>
       /\ connect_calls[1].by = "constructor"
       /\ connect_p # 0
  /\ auto_connect = "false" =>
       /\ \A k \in 1..Len(connect_calls) : connect_calls[k].by = "caller"
       /\ connect_calls = <<>> => (connect_p = 0 /\ chains = <<>> /\ pc_calls = <<>>)

(* C10: once transport.connect was invoked, the connect future is pending    *)
(* while the transport's future is, fulfilled when it fulfilled, rejected    *)
(* with its error when it rejected; transport.connect is not invoked again.  *)
C10_OutcomePropagates ==
  /\ \A i \in 1..Len(chains) :
       /\ chains[i].tc = "pending" => chains[i].stage = "connecting"
       /\ chains[i].tc = "fulfilled" => chains[i].stage = "fulfilled"
       /\ chains[i].tc = "rejected" =>
            chains[i].stage = "rejected" /\ chains[i].err = "pc_error"
  /\ CountOp("connect", pc_calls) <= Len(chains)
  /\ CountOp("connect", pc_calls) =
       Cardinality({i \in 1..Len(chains) : chains[i].tc # "none"})

\* the transport's connect was rejected and so is the future of connect()
C10_Witness ==
  \E i \in 1..Len(chains) :
    /\ chains[i].tc = "rejected"
    /\ chains[i].stage = "rejected"
    /\ chains[i].err = "pc_error"
    /\ Len(connect_calls) >= 2

\* the remote announced key(v) for the name n and for no other name, and no
\* other delivered object has a key announced for n
OnlyMatch(v, n, values) ==
  /\ <<ObjectKey(v), n>> \in announced
  /\ \A pr \in announced : pr[1] = ObjectKey(v) => pr[2] = n
  /\ \A w \in (values \cap delivered) \ {v} : <<ObjectKey(w), n>> \notin announced

KeyAnnounced(v) == \E pr \in announced : pr[1] = ObjectKey(v)

\* descriptor and object have both arrived, in either order: the name's
\* future is settled to the object; an object waits in the queue exactly
\* while no descriptor has introduced its key
MatchedBothOrders(entries, queue, values, names) ==
  /\ \A v \in values \cap delivered : \A n \in names :
       OnlyMatch(v, n, values) => entries[n] = [status |-> "resolved", value |-> v]
  /\ \A v \in values \cap delivered : InSeq(v, queue) <=> ~KeyAnnounced(v)
  /\ \A n \in names :
       entries[n].status = "resolved" =>
         /\ entries[n].value \in values \cap delivered
         /\ <<ObjectKey(entries[n].value), n>> \in announced

ResolvedForGood(entries, entriesNext, names) ==
  \A n \in names :
    /\ entries[n].status = "resolved" => entriesNext[n] = entries[n]
    /\ entries[n].status = "pending" => entriesNext[n].status # "absent"

\* stream(name) / channel(name) return the future stored for the name, the
\* default name's when no name is given
GetReturnsStored ==
  /\ last_get.coll = "stream" =>
       /\ last_get.fut = (IF last_get.arg.type = "undefined" THEN DEFAULT_STREAM
                          ELSE last_get.arg.str)
       /\ sc_entries[last_get.fut].status # "absent"
  /\ last_get.coll = "channel" =>
       /\ last_get.fut = (IF last_get.arg.type = "undefined" THEN DEFAULT_CHANNEL
                          ELSE last_get.arg.str)
       /\ cc_entries[last_get.fut].status # "absent"

(* C3: a name goes from pending to resolved at most once and never back:     *)
(* every get(name) returns the one future stored for the name, which keeps   *)
(* the value of the first resolution whatever is delivered or asked later.   *)
C3_ResolvedOnce ==
  /\ [][ResolvedForGood(sc_entries, sc_entries', StreamNames)]_vars
  /\ [][ResolvedForGood(cc_entries, cc_entries', ChannelNames)]_vars
  /\ []GetReturnsStored

\* name `a` was resolved with sA; sB, announced for `a` as well, was
\* delivered afterwards, and stream('a') was asked for
C3_Witness ==
  /\ sc_entries["a"] = [status |-> "resolved", value |-> "sA"]
  /\ {"sA", "sB"} \subseteq delivered
  /\ {<<"kA", "a">>, <<"kB", "a">>} \subseteq announced
  /\ sc_queue = <<>>
  /\ last_get.coll = "stream"
  /\ last_get.fut = "a"

(* ------------------------------ Room claims ----------------------------- *)

\* how often the room announced the state s
CountState(s) == Cardinality({k \in 1..Len(state_log) : state_log[k] = s})
Settled(f) == f.stage # "pending"
\* this step is the first connect(): it creates join_p
JoinStarted == join_p.state = "null" /\ join_p'.state # "null"
\* this step runs the callbacks connect() chained on join_p
CallbacksRun ==
  \E k \in 1..Len(room_connects) :
    room_connects[k].stage = "pending" /\ room_connects'[k].stage # "pending"
\* this step handles a closed notification of the signaling session
ClosedHandled == n_closed' # n_closed

(* C11: whatever the number of Room.connect() calls, signaling.connect is    *)
(* invoked at most once, each of the states connecting, connected and failed *)
(* is set and announced at most once, and the futures the calls returned     *)
(* settle alike.                                                             *)
C11_RoomSingleFlight ==
  /\ signaling_calls.connect <= 1
  /\ \A s \in {"connecting", "connected", "failed"} : CountState(s) <= 1
  /\ \A j, k \in 1..Len(room_connects) :
       (Settled(room_connects[j]) /\ Settled(room_connects[k])) =>
         room_connects[j] = room_connects[k]

\* the first connect() leaves idle for connecting and invokes signaling.connect
C12_Start ==
  JoinStarted =>
    /\ state = "idle"
    /\ state' = "connecting"
    /\ signaling_calls'.connect = signaling_calls.connect + 1
    /\ join_p'.state = "pending"

\* the callbacks bring the room to connected or failed and settle the
\* returned futures as join_p settled
C12_Settle ==
  CallbacksRun =>
    /\ join_p.state = "fulfilled" =>
         /\ state' = "connected"
         /\ \A k \in 1..Len(room_connects) :
              room_connects[k].stage = "pending" =>
                room_connects'[k] = [stage |-> "fulfilled", err |-> ""]
    /\ join_p.state = "rejected" =>
         /\ state' = "failed"
         /\ \A k \in 1..Len(room_connects) :
              room_connects[k].stage = "pending" =>
                room_connects'[k] = [stage |-> "rejected", err |-> join_p.err]

\* while signaling.connect is pending the room is connecting and no returned
\* future has settled; a settled future has the outcome of join_p
C12_Pending ==
  /\ join_p.state = "null" <=> state = "idle"
  /\ join_p.state = "pending" =>
       /\ state = "connecting"
       /\ \A k \in 1..Len(room_connects) : room_connects[k].stage = "pending"
  /\ \A k \in 1..Len(room_connects) :
       /\ room_connects[k].stage = "fulfilled" => join_p.state = "fulfilled"
       /\ room_connects[k].stage = "rejected" =>
            join_p.state = "rejected" /\ room_connects[k].err = join_p.err

(* C12: Room.connect() moves the room from idle to connecting before the     *)
(* signaling connect settles; when it fulfils the state becomes connected    *)
(* and the returned future fulfils, when it rejects the state becomes failed *)
(* and the returned future rejects with the same error.                      *)
C12_ConnectOutcome ==
  /\ [][C12_Start]_vars
  /\ [][C12_Settle]_vars
  /\ []C12_Pending

\* signaling.connect was rejected with e2: the room failed and the returned
\* futures carry e2
C12_Witness ==
  /\ join_p = [state |-> "rejected", err |-> "e2"]
  /\ state = "failed"
  /\ Len(room_connects) >= 2
  /\ \A k \in 1..Len(room_connects) :
       room_connects[k] = [stage |-> "rejected", err |-> "e2"]

RoomTransitions ==
  {<<"idle", "connecting">>, <<"connecting", "connected">>,
   <<"connecting", "failed">>, <<"connected", "closed">>}

(* C13: the room state only ever changes idle -> connecting, connecting ->   *)
(* connected, connecting -> failed and connected -> closed; closed and       *)
(* failed are never left.                                                    *)
C13_StateMonotonic ==
  [][state' # state => <<state, state'>> \in RoomTransitions]_vars

(* C14: a closed notification of the signaling session empties the peer map, *)
(* emits the room's closed notification, and moves the room to closed when   *)
(* it was connected; in every other state the room state is left as it is.   *)
C14_ClosedHandling ==
  [][ClosedHandled =>
       /\ peers' = [p \in PeerIds |-> 0]
       /\ Len(last_emit') = 1
       /\ last_emit'[1].ev = "closed"
       /\ state = "connected" => state' = "closed" /\ state_log' = Append(state_log, "closed")
       /\ state # "connected" => state' = state /\ state_log' = state_log]_vars

\* a connected room with a peer in its map was closed
C14_Witness ==
  /\ state = "closed"
  /\ n_closed = 1
  /\ last_emit = <<[ev |-> "closed", peer |-> 0, peers |-> [p \in PeerIds |-> 0]]>>
  /\ peers = [p \in PeerIds |-> 0]
  /\ \E o \in 1..Len(remote_peers) : remote_peers[o].left = 0

\* this step handles peer_joined: createPeer has built one more remote peer
JoinHandled == Len(remote_peers') # Len(remote_peers)
\* this step handles the left notification of remote peer o
LeftHandled(o) ==
  /\ o <= Len(remote_peers)
  /\ remote_peers[o].left = 0
  /\ remote_peers'[o].left # 0

\* peer_joined for id p builds a remote peer with a transport session of its
\* own, stores it under p and emits peer_joined, then peers_changed, both
\* with p in the map
C15_JoinStep ==
  JoinHandled =>
    LET o == Len(remote_peers')
        p == remote_peers'[o].id
    IN /\ o = Len(remote_peers) + 1
       /\ \A j \in 1..Len(remote_peers) :
            /\ remote_peers'[j] = remote_peers[j]
            /\ remote_peers[j].pc # remote_peers'[o].pc
       /\ remote_peers'[o].calls = <<>>
       /\ remote_peers'[o].left = 0
       /\ peers'[p] = o
       /\ \A q \in PeerIds \ {p} : peers'[q] = peers[q]
       /\ Len(last_emit') = 2
       /\ last_emit'[1].ev = "peer_joined"
       /\ last_emit'[1].peer = o
       /\ last_emit'[1].peers[p] = o
       /\ last_emit'[2].ev = "peers_changed"
       /\ last_emit'[2].peers = peers'

(* C15: every peer_joined notification for peer id p makes the room build a  *)
(* new transport session and a new remote peer, never one of an earlier      *)
(* join, store it under p and then emit peer_joined with it followed by      *)
(* peers_changed, the map already holding it when peer_joined is observed.   *)
C15_JoinCreatesFresh ==
  /\ [][C15_JoinStep]_vars
  /\ [](\A j, k \in 1..Len(remote_peers) : j # k => remote_peers[j].pc # remote_peers[k].pc)

\* p1 joined while the remote peer of an earlier join of p1 was in the map
C15_Witness ==
  /\ Len(remote_peers) >= 2
  /\ remote_peers[1].id = "p1"
  /\ remote_peers[2].id = "p1"
  /\ remote_peers[1].left = 0
  /\ peers["p1"] = 2
  /\ Len(last_emit) = 2
  /\ last_emit[1] = [ev |-> "peer_joined", peer |-> 2, peers |-> peers]

\* the left of a signaling peer closes the remote peer's transport session,
\* makes it emit left, and the room drops the id and emits peer_left, then
\* peers_changed
C16_LeftStep ==
  \A o \in 1..MaxJoins :
    LeftHandled(o) =>
      LET p == remote_peers[o].id
      IN /\ remote_peers'[o].calls =
              Append(remote_peers[o].calls, [op |-> "close", name |-> "", arg |-> ""])
         /\ remote_peers'[o].left = 1
         /\ peers'[p] = 0
         /\ \A q \in PeerIds \ {p} : peers'[q] = peers[q]
         /\ Len(last_emit') = 2
         /\ last_emit'[1].ev = "peer_left"
         /\ last_emit'[1].peer = o
         /\ last_emit'[2].ev = "peers_changed"
         /\ last_emit'[2].peers = peers'
         /\ last_emit'[2].peers[p] = 0

\* an id absent from the map gets an entry only by a peer_joined for it
C16_AbsentUntilJoin ==
  \A p \in PeerIds :
    (peers[p] = 0 /\ peers'[p] # 0) =>
      /\ JoinHandled
      /\ remote_peers'[Len(remote_peers')].id = p

(* C16: when the signaling session of a peer emits left, the remote peer     *)
(* closes its transport session and emits left, the room removes the peer's  *)
(* id from the map and emits peer_left followed by peers_changed; the id     *)
(* stays absent until a later peer_joined for it.                            *)
C16_LeftRemoves ==
  /\ [][C16_LeftStep]_vars
  /\ [][C16_AbsentUntilJoin]_vars

\* p1 joined and left: its transport session is closed, its id absent
C16_Witness ==
  /\ Len(remote_peers) = 1
  /\ remote_peers[1] = [id |-> "p1", pc |-> 1, left |-> 1,
                        calls |-> <<[op |-> "close", name |-> "", arg |-> ""]>>]
  /\ peers["p1"] = 0
  /\ Len(last_emit) = 2
  /\ last_emit[1].ev = "peer_left"
  /\ last_emit[1].peer = 1

\* the transport session of remote peer o was told to close
TransportClosed(o) ==
  \E k \in 1..Len(remote_peers[o].calls) : remote_peers[o].calls[k].op = "close"

PayloadEmitted == pc_emitted' # pc_emitted
\* this step handles an inbound payload of the signaling session
PayloadReceived == pc_signaling'.count # pc_signaling.count
\* this step belongs to the local side: connect(), its callback with
\* setLocal, the settling of the chain
LocalStep ==
  \/ connect_calls' # connect_calls
  \/ chains' # chains
  \/ pc_calls' # pc_calls
  \/ streams_desc' # streams_desc
  \/ channels_desc' # channels_desc
  \/ cc_local' # cc_local
NoBodyRan == \A i \in 1..Len(chains) : chains[i].tc = "none"

(* C18: every outgoing signaling payload the transport emits is sent to the  *)
(* signaling session exactly once, with the local stream and channel         *)
(* descriptors of that moment as its streams and channels: empty ones until  *)
(* connect has added a resource.                                             *)
C18_OutgoingPayload ==
  /\ [](sig_sent.count = pc_emitted)
  /\ [](NoBodyRan => (streams_desc = <<>> /\ channels_desc = <<>>))
  /\ [][PayloadEmitted =>
          /\ pc_emitted' = pc_emitted + 1
          /\ sig_sent'.count = sig_sent.count + 1
          /\ sig_sent'.last = [streams |-> streams_desc, channels |-> channels_desc]
          /\ UNCHANGED <<streams_desc, channels_desc, pc_calls>>]_vars
  /\ [][~PayloadEmitted => sig_sent' = sig_sent]_vars

\* a payload left before the callback of connect() ran, another one after it
\* with a stream and a channel described
C18_Witness ==
  /\ pc_emitted = 2
  /\ sig_sent.count = 2
  /\ sig_sent.last.streams # <<>>
  /\ sig_sent.last.channels # <<>>
  /\ sig_sent.last = [streams |-> streams_desc, channels |-> channels_desc]
  /\ \E k \in 1..Len(pc_calls) : pc_calls[k].op = "connect"

C20_NoCallsAfterClose ==
  \A j, k \in 1..Len(pc_calls) :
    (j < k /\ pc_calls[j].op = "close") => pc_calls[k].op = "close"

(* C21: the left of a remote peer removes only that remote peer from the     *)
(* map: when its id has joined again and the map holds the newer remote      *)
(* peer, the left of the older one leaves that entry in place.               *)
C21_LeftRemovesOnlyItself ==
  [][\A o \in 1..MaxJoins :
       (LeftHandled(o) /\ peers[remote_peers[o].id] # o) =>
         peers'[remote_peers[o].id] = peers[remote_peers[o].id]]_vars

(* ------------------- resources registered after connect ----------------- *)

(* C22: the local resources a peer applies are those declared when connect() *)
(* is first invoked: a stream or a channel registered afterwards, also while *)
(* the local stream futures are pending, is never added to the transport and *)
(* never appears in the local descriptors.                                   *)
C22_FixedAtConnect ==
  /\ \A n \in late.streams : ~ObjHas(streams_desc, n)
  /\ \A n \in late.channels :
       ~ObjHas(channels_desc, n) /\ CountChannel(n, pc_calls) = 0

====
